---- MODULE Spec2Model ----
(***************************************************************************)
(* ProPyCore resource accessors (Companies, GenericTool, Documents,        *)
(* Folders, Files) as a state machine.  The library is stateless between   *)
(* calls: a state is the accessor call made last (or the one in progress), *)
(* the HTTP requests it issued, the responses the remote gave, and what    *)
(* the caller got back.  The remote's data is fixed when a behaviour       *)
(* starts; whether a request fails is decided request by request.          *)
(***************************************************************************)
EXTENDS Integers, Sequences, FiniteSets, TLC

VARIABLES
    remote,    \* what the remote serves: company, tool and document lists,
               \* and the company and project ids the caller works with
    call,      \* the accessor method called and its arguments
    reqs,      \* the requests this call handed to the Request Layer, in order
    resps,     \* the remote's response to each of them
    outcome,   \* what the caller got: a returned value or a raised exception
    lcl        \* locals of a get_tool_items loop in progress

vars == <<remote, call, reqs, resps, outcome, lcl>>

----------------------------------------------------------------------------
(* Bounds of the model *)

MaxLen == 2        \* records in a company / tool list response
MaxDocs == 2       \* records in a project document list
MaxPages == 3      \* pages a get_tool_items loop is followed for
MaxItems == 2      \* items on one page of tool items

----------------------------------------------------------------------------
(* Python values.  A value is tagged with its type; == follows Python:     *)
(* bool is a subclass of int and True == 1, a str never equals a number,   *)
(* None equals only None.                                                  *)

PyInt(n) == [t |-> "int", v |-> n]
PyStr(s) == [t |-> "str", v |-> s]
PyBool(b) == [t |-> "bool", v |-> b]
PyNone == [t |-> "none", v |-> "None"]

IsNumber(x) == x.t \in {"int", "bool"}
Num(x) == IF x.t = "bool" THEN (IF x.v THEN 1 ELSE 0) ELSE x.v

PyEq(a, b) ==
    IF IsNumber(a) /\ IsNumber(b) THEN Num(a) = Num(b)
    ELSE IF a.t = "str" /\ b.t = "str" THEN a.v = b.v
    ELSE a.t = "none" /\ b.t = "none"

\* f"{n}" for a non-negative int
Digits == <<"0", "1", "2", "3", "4", "5", "6", "7", "8", "9">>
RECURSIVE Format(_)
Format(n) == IF n < 10 THEN Digits[n + 1]
             ELSE Format(n \div 10) \o Digits[(n % 10) + 1]

Range(seq) == {seq[i] : i \in 1..Len(seq)}
SeqsUpTo(S, n) == UNION {[1..k -> S] : k \in 0..n}

----------------------------------------------------------------------------
(* Request Layer (Base.get_request / post_request / patch_request): the    *)
(* parsed body on a 2xx status, the generic API exception otherwise.       *)

ErrorResponses ==
    { [status |-> 401, body |-> "unauthorized"],
      [status |-> 409, body |-> "name has already been taken"],
      [status |-> 422, body |-> "unprocessable"],
      [status |-> 500, body |-> "server error"] }

Ok(body) == [status |-> 200, body |-> body]

Returned(v) == [kind |-> "return", value |-> v]
Raised(exc, v) == [kind |-> exc, value |-> v]

request(resp) ==
    IF resp.status >= 200 /\ resp.status <= 299
    THEN Returned(resp.body)
    ELSE Raised("ProcoreException", [status |-> resp.status, body |-> resp.body])

\* str(e) of the generic API exception: the status code and the response body.
Message(e) == Format(e.status) \o " " \o e.body

\* A header kept from the call before, where that call had a company.
CompanyHeader_FromCallBefore(company_id) ==
    "Procore-Company-Id" :>
        Format(IF "company_id" \in DOMAIN call THEN call.company_id ELSE company_id)
CompanyHeader(company_id) == "Procore-Company-Id" :> Format(company_id)

Req(method, api_url, headers, params, data, files) ==
    [method |-> method, api_url |-> api_url, additional_headers |-> headers,
     params |-> params, data |-> data, files |-> files]

NoLocals == [page |-> 0, n_items |-> 0, items |-> <<>>]

Idle == outcome.kind # "running"

----------------------------------------------------------------------------
(* Companies *)

Companies_endpoint == "/rest/v1.0/companies"

\* def get(self, page=1, per_page=100)
Companies_get_page == 1
Companies_get_per_page == 100

Companies_get_request(page, per_page) ==
    Req("GET", Companies_endpoint, <<>>,
        [page |-> page, per_page |-> per_page, include_free_companies |-> TRUE],
        <<>>, "none")

Companies_get_projects_request(company_id) ==
    Req("GET", Companies_endpoint \o "/" \o Format(company_id) \o "/projects",
        CompanyHeader(company_id), <<>>, <<>>, "none")

Companies_get_regions_request(company_id, page, per_page) ==
    Req("GET", Companies_endpoint \o "/" \o Format(company_id) \o "/project_regions",
        CompanyHeader(company_id), [page |-> page, per_page |-> per_page],
        <<>>, "none")

Companies_get_project_types_request(company_id, page, per_page) ==
    Req("GET", Companies_endpoint \o "/" \o Format(company_id) \o "/project_types",
        CompanyHeader(company_id), [page |-> page, per_page |-> per_page],
        <<>>, "none")

isinstance_int(identifier) == identifier.t \in {"int", "bool"}

Companies_find_key_AlwaysName(identifier) == "name"
Companies_find_key(identifier) ==
    IF isinstance_int(identifier) THEN "id" ELSE "name"

\* for item in items: if item[key] == identifier: return item
RECURSIVE Scan(_, _, _, _)
Scan(items, key, identifier, i) ==
    IF i > Len(items) THEN 0
    ELSE IF PyEq(items[i][key], identifier) THEN i
    ELSE Scan(items, key, identifier, i + 1)

Companies_find_LastMatch(identifier, resp) ==
    LET got == request(resp)
        key == Companies_find_key(identifier)
        hits == {i \in 1..Len(got.value) : PyEq(got.value[i][key], identifier)}
    IN  IF got.kind # "return" THEN got
        ELSE IF hits = {} THEN Raised("NotFoundItemError",
                                     [text |-> "Could not find company", about |-> identifier])
        ELSE Returned(got.value[CHOOSE i \in hits : \A j \in hits : j <= i])
\* A find that reads on past the first page, through all the remote holds.
Companies_find_AllPages(identifier, resp) ==
    LET got == request(resp)
        key == Companies_find_key(identifier)
    IN  IF got.kind # "return" THEN got
        ELSE LET i == Scan(remote.companies, key, identifier, 1)
             IN  IF i > 0 THEN Returned(remote.companies[i])
                 ELSE Raised("NotFoundItemError",
                             [text |-> "Could not find company", about |-> identifier])
Companies_find(identifier, resp) ==
    LET got == request(resp)
        key == Companies_find_key(identifier)
    IN  IF got.kind # "return" THEN got
        ELSE LET i == Scan(got.value, key, identifier, 1)
             IN  IF i > 0 THEN Returned(got.value[i])
                 ELSE Raised("NotFoundItemError",
                             [text |-> "Could not find company", about |-> identifier])

----------------------------------------------------------------------------
(* GenericTool: get_tools, find_tool *)

GenericTool_endpoint == "/rest/v1.0/companies"

get_tools_request(company_id, per_page) ==
    Req("GET", GenericTool_endpoint \o "/" \o Format(company_id) \o "/generic_tools",
        CompanyHeader(company_id), [page |-> 1, per_page |-> per_page], <<>>, "none")

find_tool_key(identifier) ==
    IF isinstance_int(identifier) THEN "id" ELSE "title"

find_tool(company_id, identifier, resp) ==
    LET got == request(resp)
        key == find_tool_key(identifier)
    IN  IF got.kind # "return" THEN got
        ELSE LET i == Scan(got.value, key, identifier, 1)
             IN  IF i > 0 THEN Returned(got.value[i])
                 ELSE Raised("NotFoundItemError",
                             [text |-> "Could not find tool", about |-> identifier])

----------------------------------------------------------------------------
(* Documents, Folders, Files: show, get, find *)

Folders_endpoint == "/rest/v1.0/folders"
Files_endpoint == "/rest/v1.0/files"

Documents_show_request(endpoint, company_id, project_id, doc_id) ==
    Req("GET", endpoint \o "/" \o Format(doc_id), CompanyHeader(company_id),
        [project_id |-> project_id], <<>>, "none")

Documents_remove_request(endpoint, company_id, project_id, doc_id) ==
    Req("DELETE", endpoint \o "/" \o Format(doc_id), CompanyHeader(company_id),
        [project_id |-> project_id], <<>>, "none")

Folders_root_request(company_id, project_id) ==
    Req("GET", Folders_endpoint, CompanyHeader(company_id),
        [project_id |-> project_id], <<>>, "none")

Documents_get_request(company_id, project_id) ==
    Req("GET", "/rest/v1.0/projects/" \o Format(project_id) \o "/documents",
        CompanyHeader(company_id), <<>>, <<>>, "none")

Documents_get(company_id, project_id, resp) == request(resp)

\* for doc in doc_info: if doc["is_deleted"] is False and
\* doc["is_recycle_bin"] is False: if doc["document_type"] == t: append
LiveOfType_IgnoreRecycleBin(doc_info, document_type) ==
    SelectSeq(doc_info, LAMBDA doc :
        doc.is_deleted = FALSE /\ doc.document_type = document_type)
LiveOfType_AnyType(doc_info, document_type) ==
    SelectSeq(doc_info, LAMBDA doc :
        doc.is_deleted = FALSE /\ doc.is_recycle_bin = FALSE)
LiveOfType(doc_info, document_type) ==
    SelectSeq(doc_info, LAMBDA doc :
        /\ doc.is_deleted = FALSE /\ doc.is_recycle_bin = FALSE
        /\ doc.document_type = document_type)

\* Folders.get without the NotFound of an empty result.
Folders_get_EmptyList(company_id, project_id, resp) ==
    LET got == request(resp)
    IN  IF got.kind # "return" THEN got
        ELSE Returned(LiveOfType(got.value, "folder"))

Folders_get(company_id, project_id, resp) ==
    LET got == request(resp)
    IN  IF got.kind # "return" THEN got
        ELSE LET folders == LiveOfType(got.value, "folder")
             IN  IF Len(folders) > 0 THEN Returned(folders)
                 ELSE Raised("NotFoundItemError",
                             [text |-> "No folders are available in Project",
                              about |-> project_id])

Files_get(company_id, project_id, resp) ==
    LET got == request(resp)
    IN  IF got.kind # "return" THEN got
        ELSE LET files == LiveOfType(got.value, "file")
             IN  IF Len(files) > 0 THEN Returned(files)
                 ELSE Raised("NotFoundItemError",
                             [text |-> "No files are available in Project",
                              about |-> project_id])

\* The scan that keeps going and settles on the last record of the name.
ScanName_LastMatch(docs, identifier, i) ==
    LET hits == {j \in i..Len(docs) : docs[j].name = identifier}
    IN  IF hits = {} THEN 0 ELSE CHOOSE j \in hits : \A k \in hits : k <= j

\* for doc in docs: if doc["name"] == identifier: return self.show(...)
RECURSIVE ScanName(_, _, _)
ScanName(docs, identifier, i) ==
    IF i > Len(docs) THEN 0
    ELSE IF docs[i].name = identifier THEN i
    ELSE ScanName(docs, identifier, i + 1)

\* The requests a find issues, the responses it consumes and its outcome;
\* show_resp[doc_id] is what the remote answers to the show request.
Documents_find(endpoint, got, company_id, project_id, identifier, resp, show_resp) ==
    LET listing == Documents_get_request(company_id, project_id)
    IN  IF got.kind # "return"
        THEN [reqs |-> <<listing>>, resps |-> <<resp>>, outcome |-> got]
        ELSE LET i == ScanName(got.value, identifier, 1)
             IN  IF i > 0
                 THEN [reqs |-> <<listing,
                                  Documents_show_request(endpoint, company_id,
                                      project_id, got.value[i].id)>>,
                       resps |-> <<resp, show_resp[got.value[i].id]>>,
                       outcome |-> request(show_resp[got.value[i].id])]
                 ELSE [reqs |-> <<listing>>, resps |-> <<resp>>,
                       outcome |-> Raised("NotFoundItemError",
                                          [text |-> "Could not find document",
                                           about |-> identifier])]

Folders_find(company_id, project_id, identifier, resp, show_resp) ==
    Documents_find(Folders_endpoint, Folders_get(company_id, project_id, resp),
                   company_id, project_id, identifier, resp, show_resp)

Files_find(company_id, project_id, identifier, resp, show_resp) ==
    Documents_find(Files_endpoint, Files_get(company_id, project_id, resp),
                   company_id, project_id, identifier, resp, show_resp)

----------------------------------------------------------------------------
(* GenericTool: get_tool_items, create_tool_item *)

ToolItemsUrl(project_id, tool_id) ==
    "/rest/v1.0/projects/" \o Format(project_id) \o "/generic_tools/"
        \o Format(tool_id) \o "/generic_tool_items"

get_tool_items_request(company_id, project_id, tool_id, page) ==
    Req("GET", ToolItemsUrl(project_id, tool_id), CompanyHeader(company_id),
        [view |-> "extended", sort |-> "created_at", page |-> page,
         per_page |-> 10000] @@ ("filters[recycle_bin]" :> FALSE),
        <<>>, "none")

get_tool_statuses_request(company_id, project_id, tool_id) ==
    Req("GET", ToolItemsUrl(project_id, tool_id) \o "/available_statuses",
        CompanyHeader(company_id), <<>>, <<>>, "none")

\* n_items = 1; page = 1; items = []
get_tool_items_locals == [page |-> 1, n_items |-> 1, items |-> <<>>]

\* while n_items > 0
get_tool_items_continues_MoreThanOne(l) == l.n_items > 1
get_tool_items_continues(l) == l.n_items > 0

\* n_items = len(item_info); items.append(item_info); page += 1
get_tool_items_iteration_SamePage(l, item_info) ==
    [page |-> l.page, n_items |-> Len(item_info), items |-> Append(l.items, item_info)]
\* items.extend(item_info) in place of items.append(item_info)
get_tool_items_iteration_Extend(l, item_info) ==
    [page |-> l.page + 1, n_items |-> Len(item_info), items |-> l.items \o item_info]
get_tool_items_iteration(l, item_info) ==
    [page |-> l.page + 1, n_items |-> Len(item_info),
     items |-> Append(l.items, item_info)]

\* if len(items) > 0: return items; else: raise NotFoundItemError
get_tool_items_result(l, project_id, tool_id) ==
    IF Len(l.items) > 0 THEN Returned(l.items)
    ELSE Raised("NotFoundItemError",
                [text |-> "No items are available in Project", about |-> project_id])

----------------------------------------------------------------------------
(* Folders and Files: create, update.  GenericTool: create_tool_item *)

\* str(parent_id)
str(x) == IF x.t = "int" THEN PyStr(Format(x.v)) ELSE x

Folders_create_request(company_id, project_id, folder_name, parent_id) ==
    Req("POST", Folders_endpoint, CompanyHeader(company_id),
        [project_id |-> project_id],
        IF parent_id = PyNone
        THEN [folder |-> [name |-> folder_name, explicit_permissions |-> FALSE]]
        ELSE [folder |-> [name |-> folder_name, parent_id |-> str(parent_id),
                          explicit_permissions |-> FALSE]],
        "none")

\* try: post_request(...)  except ProcoreException: raise WrongParamsError(...)
Folders_create_Uncaught(company_id, project_id, folder_name, parent_id, resp) ==
    request(resp)
Folders_create(company_id, project_id, folder_name, parent_id, resp) ==
    LET got == request(resp)
    IN  IF got.kind = "ProcoreException"
        THEN Raised("WrongParamsError",
                    [text |-> "Folder " \o folder_name \o " already exists"])
        ELSE got

\* filepath.rsplit('/', 1)[-1], the path given by its segments
Basename(filepath) == filepath[Len(filepath)]

Files_create_request(company_id, project_id, filepath, parent_id, description) ==
    Req("POST", Files_endpoint, CompanyHeader(company_id),
        [project_id |-> project_id],
        LET data == ("file[name]" :> PyStr(Basename(filepath))) @@
                    ("file[description]" :>
                        IF description = PyNone THEN PyStr("None") ELSE description)
        IN  IF parent_id # PyNone
            THEN data @@ ("file[parent_id]" :> parent_id)
            ELSE data,
        "file[data]" :> filepath)

Files_create(company_id, project_id, filepath, parent_id, description, resp) ==
    LET got == request(resp)
    IN  IF got.kind = "ProcoreException"
        THEN Raised("WrongParamsError",
                    [text |-> "File " \o Basename(filepath) \o " already exists"])
        ELSE got

\* open(filepath, "rb") on a path that cannot be opened
open_fails(filepath) == Raised("OSError", [text |-> Basename(filepath)])

create_tool_item_request(company_id, project_id, tool_id, data) ==
    Req("POST", ToolItemsUrl(project_id, tool_id), CompanyHeader(company_id),
        <<>>, data, "none")

\* except ProcoreException as e: raise WrongParamsError(e)
create_tool_item(company_id, project_id, tool_id, data, resp) ==
    LET got == request(resp)
    IN  IF got.kind = "ProcoreException"
        THEN Raised("WrongParamsError", [text |-> Message(got.value)])
        ELSE got

\* if val is not None
is_not_None_Truthy(val) ==
    CASE val.t = "int" -> val.v # 0
      [] val.t = "str" -> val.v # ""
      [] val.t = "bool" -> val.v
      [] OTHER -> FALSE
is_not_None(val) == val.t # "none"

\* for key, val in zip(keys, vals): if val is not None: body[key] = val
RECURSIVE SparseBody(_, _, _, _)
SparseBody(keys, vals, i, body) ==
    IF i > Len(keys) \/ i > Len(vals) THEN body
    ELSE SparseBody(keys, vals, i + 1,
            IF is_not_None(vals[i])
            THEN [k \in DOMAIN body \cup {keys[i]} |->
                     IF k = keys[i] THEN vals[i] ELSE body[k]]
            ELSE body)

Folders_update_request(company_id, project_id, doc_id, parent_id, folder_name, private) ==
    Req("PATCH", Folders_endpoint \o "/" \o Format(doc_id), CompanyHeader(company_id),
        [project_id |-> project_id],
        [folder |-> SparseBody(<<"parent_id", "name", "explicit_permissions">>,
                               <<parent_id, folder_name, private>>, 1, <<>>)],
        "none")

Files_update_request(company_id, project_id, doc_id, filepath, parent_id, filename, description, private) ==
    Req("PATCH", Files_endpoint \o "/" \o Format(doc_id), CompanyHeader(company_id),
        [project_id |-> project_id],
        SparseBody(<<"file[parent_id]", "file[name]", "file[description]",
                     "file[private]">>,
                   <<parent_id, filename, description, private>>, 1, <<>>),
        IF filepath # PyNone THEN "file[data]" :> filepath.v ELSE TRUE)

----------------------------------------------------------------------------
(* Inputs *)

\* The ids the caller works with.
CompanyIds == remote.company_ids
ProjectIds == remote.project_ids
ToolIds == {5}

FieldValues == {PyInt(1), PyInt(7), PyStr("Acme")}
Identifiers == FieldValues \cup {PyBool(TRUE), PyStr("Nonexistent")}

\* A row of the remote: its id and its label (a company's name, a tool's title).
Rows == [id : FieldValues, label : FieldValues]
AsCompany(row) == [id |-> row.id, name |-> row.label]
AsTool(row) == [id |-> row.id, title |-> row.label]

\* The page of a list the remote serves: pages are 1-based, per_page long.
Page(list, page, per_page) ==
    SubSeq(list, (page - 1) * per_page + 1,
           IF page * per_page < Len(list) THEN page * per_page ELSE Len(list))

\* What the remote answers to a request: the data it holds, or a failure.
Answers(body) == {Ok(body)} \cup ErrorResponses

\* Reads fail one way as far as an accessor can tell.
ReadAnswers(body) == {Ok(body), [status |-> 500, body |-> "server error"]}

DocNames == {"plans", "specs"}
DocId(i) == 10 + i
DocRecords(i) ==
    [id : {DocId(i)}, name : DocNames, document_type : {"folder", "file"},
     is_deleted : BOOLEAN, is_recycle_bin : BOOLEAN]
DocLists ==
    UNION { {l \in [1..k -> UNION {DocRecords(i) : i \in 1..k}] :
                \A i \in 1..k : l[i].id = DocId(i)} : k \in 0..MaxDocs }

\* The remote's full detail of the document with this id.
Detail(doc_id) ==
    LET i == CHOOSE j \in 1..Len(remote.documents) : remote.documents[j].id = doc_id
    IN  [id |-> doc_id, name |-> remote.documents[i].name, detail |-> "full"]

ToolItems == {"item a", "item b"}
ItemPages == SeqsUpTo(ToolItems, MaxItems)

\* The values a run draws an argument from: every value of the set, or, in a
\* session that varies the ids and the order of the calls instead, one value.
Drawn(S, one) == IF remote.arguments = "every" THEN S ELSE {one}

FolderNames == Drawn({"plans", "specs"}, "plans")
FilePaths == Drawn({<<"data", "test.pdf">>, <<"plan.dwg">>}, <<"data", "test.pdf">>)
ParentIds == Drawn({PyNone, PyInt(11)}, PyInt(11))
Descriptions == Drawn({PyNone, PyStr("as built")}, PyStr("as built"))
ItemData == Drawn({[title |-> "rfi"], [title |-> ""]}, [title |-> "rfi"])

\* Optional arguments of update: left out, given a falsy value, given another.
OptParentIds == Drawn({PyNone, PyInt(0), PyInt(11)}, PyInt(11))
OptNames == Drawn({PyNone, PyStr(""), PyStr("plans")}, PyStr("plans"))
OptDescriptions == Drawn({PyNone, PyStr(""), PyStr("as built")}, PyNone)
OptPrivate == Drawn({PyNone, PyBool(FALSE), PyBool(TRUE)}, PyBool(TRUE))
OptFilePaths == {PyNone, PyStr("plan.dwg")}
DocIds == {11}

\* What the remote holds, and the ids and pages a run draws from.
Remote(companies, tools, documents, company_ids, project_ids) ==
    [companies |-> companies, tools |-> tools, documents |-> documents,
     company_ids |-> company_ids, project_ids |-> project_ids,
     item_pages |-> ItemPages, arguments |-> "every"]

\* Lists the remote answers the single-page reads with.
RemoteProjects == <<[id |-> 3, name |-> "Depot"], [id |-> 4, name |-> "Tower"]>>
RemoteRegions == <<[id |-> 21, name |-> "North"]>>
RemoteProjectTypes == <<[id |-> 31, name |-> "Commercial"]>>
RemoteStatuses == <<"open", "closed">>
RemoteDocIds == {doc.id : doc \in Range(remote.documents)}

----------------------------------------------------------------------------
(* The calls *)

InitCall ==
    /\ call = [op |-> "none"]
    /\ reqs = <<>>
    /\ resps = <<>>
    /\ outcome = [kind |-> "none", value |-> PyNone]
    /\ lcl = NoLocals

\* for company in self.get(): the one request of get with its defaults
Companies_find_request ==
    Companies_get_request(Companies_get_page, Companies_get_per_page)

CallCompaniesFind ==
    \E identifier \in Identifiers,
       resp \in Answers(Page(remote.companies, Companies_find_request.params.page,
                             Companies_find_request.params.per_page)) :
        /\ Idle
        /\ call' = [op |-> "Companies.find", identifier |-> identifier]
        /\ reqs' = <<Companies_find_request>>
        /\ resps' = <<resp>>
        /\ outcome' = Companies_find(identifier, resp)
        /\ UNCHANGED <<remote, lcl>>

CallFindTool ==
    \E company_id \in CompanyIds, identifier \in Identifiers,
       resp \in Answers(remote.tools) :
        /\ Idle
        /\ call' = [op |-> "GenericTool.find_tool", company_id |-> company_id,
                    identifier |-> identifier]
        /\ reqs' = <<get_tools_request(company_id, 100)>>
        /\ resps' = <<resp>>
        /\ outcome' = find_tool(company_id, identifier, resp)
        /\ UNCHANGED <<remote, lcl>>

\* Lookups by identifier, against every company / tool list of the bound.
InitFind ==
    /\ \E rows \in SeqsUpTo(Rows, MaxLen) :
          remote = Remote([i \in 1..Len(rows) |-> AsCompany(rows[i])],
                          [i \in 1..Len(rows) |-> AsTool(rows[i])],
                          <<>>, {1, 2}, {3})
    /\ InitCall

NextFind == CallCompaniesFind \/ CallFindTool

SpecFind == InitFind /\ [][NextFind]_vars

\* Company lookups against a remote that holds more companies than one page
\* of the default size: a full first page, and possibly one company after it.
Filler(i) == [id |-> PyInt(1000 + i), name |-> PyStr("Filler")]

InitCompanies ==
    /\ \E last \in Rows, beyond \in SeqsUpTo(Rows, 1) :
          remote = Remote([i \in 1..(Companies_get_per_page - 1) |-> Filler(i)]
                              \o <<AsCompany(last)>>
                              \o [i \in 1..Len(beyond) |-> AsCompany(beyond[i])],
                          <<>>, <<>>, {1, 2}, {3})
    /\ InitCall

NextCompanies == CallCompaniesFind

SpecCompanies == InitCompanies /\ [][NextCompanies]_vars

----------------------------------------------------------------------------
(* Calls on a project's documents *)

CallDocumentsGet ==
    \E company_id \in CompanyIds, project_id \in ProjectIds,
       resp \in ReadAnswers(remote.documents) :
        /\ Idle
        /\ call' = [op |-> "Documents.get", company_id |-> company_id,
                    project_id |-> project_id]
        /\ reqs' = <<Documents_get_request(company_id, project_id)>>
        /\ resps' = <<resp>>
        /\ outcome' = Documents_get(company_id, project_id, resp)
        /\ UNCHANGED <<remote, lcl>>

CallFoldersGet ==
    \E company_id \in CompanyIds, project_id \in ProjectIds,
       resp \in ReadAnswers(remote.documents) :
        /\ Idle
        /\ call' = [op |-> "Folders.get", company_id |-> company_id,
                    project_id |-> project_id]
        /\ reqs' = <<Documents_get_request(company_id, project_id)>>
        /\ resps' = <<resp>>
        /\ outcome' = Folders_get(company_id, project_id, resp)
        /\ UNCHANGED <<remote, lcl>>

CallFilesGet ==
    \E company_id \in CompanyIds, project_id \in ProjectIds,
       resp \in ReadAnswers(remote.documents) :
        /\ Idle
        /\ call' = [op |-> "Files.get", company_id |-> company_id,
                    project_id |-> project_id]
        /\ reqs' = <<Documents_get_request(company_id, project_id)>>
        /\ resps' = <<resp>>
        /\ outcome' = Files_get(company_id, project_id, resp)
        /\ UNCHANGED <<remote, lcl>>

CallFoldersFind ==
    \E company_id \in CompanyIds, project_id \in ProjectIds, identifier \in DocNames,
       resp \in ReadAnswers(remote.documents), show_ok \in BOOLEAN :
        LET show_resp == [doc_id \in {doc.id : doc \in Range(remote.documents)} |->
                             IF show_ok THEN Ok(Detail(doc_id))
                             ELSE [status |-> 500, body |-> "server error"]]
            t == Folders_find(company_id, project_id, identifier, resp, show_resp)
        IN  /\ Idle
            /\ call' = [op |-> "Folders.find", company_id |-> company_id,
                        project_id |-> project_id, identifier |-> identifier]
            /\ reqs' = t.reqs
            /\ resps' = t.resps
            /\ outcome' = t.outcome
            /\ UNCHANGED <<remote, lcl>>

CallFilesFind ==
    \E company_id \in CompanyIds, project_id \in ProjectIds, identifier \in DocNames,
       resp \in ReadAnswers(remote.documents), show_ok \in BOOLEAN :
        LET show_resp == [doc_id \in {doc.id : doc \in Range(remote.documents)} |->
                             IF show_ok THEN Ok(Detail(doc_id))
                             ELSE [status |-> 500, body |-> "server error"]]
            t == Files_find(company_id, project_id, identifier, resp, show_resp)
        IN  /\ Idle
            /\ call' = [op |-> "Files.find", company_id |-> company_id,
                        project_id |-> project_id, identifier |-> identifier]
            /\ reqs' = t.reqs
            /\ resps' = t.resps
            /\ outcome' = t.outcome
            /\ UNCHANGED <<remote, lcl>>

\* Document calls against every project document list of the bound.
InitDocs ==
    /\ \E docs \in DocLists :
          remote = Remote(<<>>, <<>>, docs, {1, 2}, {3})
    /\ InitCall

NextDocs ==
    \/ CallDocumentsGet
    \/ CallFoldersGet
    \/ CallFilesGet
    \/ CallFoldersFind
    \/ CallFilesFind

SpecDocs == InitDocs /\ [][NextDocs]_vars

----------------------------------------------------------------------------
(* get_tool_items: one step per request of its loop *)

\* A loop that swallows the failure of a request and goes on.
InToolItems_AfterFailure ==
    /\ call.op = "GenericTool.get_tool_items"
    /\ outcome.kind \in {"running", "ProcoreException"}
InToolItems == call.op = "GenericTool.get_tool_items" /\ outcome.kind = "running"

CallGetToolItems ==
    \E company_id \in CompanyIds, project_id \in ProjectIds, tool_id \in ToolIds :
        /\ Idle
        /\ call' = [op |-> "GenericTool.get_tool_items", company_id |-> company_id,
                    project_id |-> project_id, tool_id |-> tool_id]
        /\ reqs' = <<>>
        /\ resps' = <<>>
        /\ outcome' = [kind |-> "running", value |-> PyNone]
        /\ lcl' = get_tool_items_locals
        /\ UNCHANGED remote

\* One iteration: the request for the current page, answered with a page.
GetToolItemsPage ==
    \E item_info \in remote.item_pages :
        /\ InToolItems
        /\ get_tool_items_continues(lcl)
        /\ lcl.page <= MaxPages
        /\ reqs' = Append(reqs, get_tool_items_request(call.company_id,
                                    call.project_id, call.tool_id, lcl.page))
        /\ resps' = Append(resps, Ok(item_info))
        /\ lcl' = get_tool_items_iteration(lcl, item_info)
        /\ UNCHANGED <<remote, call, outcome>>

\* One iteration whose request fails: the exception leaves the loop.
GetToolItemsFails ==
    \E resp \in ErrorResponses :
        /\ InToolItems
        /\ get_tool_items_continues(lcl)
        /\ lcl.page <= MaxPages
        /\ reqs' = Append(reqs, get_tool_items_request(call.company_id,
                                    call.project_id, call.tool_id, lcl.page))
        /\ resps' = Append(resps, resp)
        /\ outcome' = request(resp)
        /\ UNCHANGED <<remote, call, lcl>>

GetToolItemsReturn ==
    /\ InToolItems
    /\ ~get_tool_items_continues(lcl)
    /\ outcome' = get_tool_items_result(lcl, call.project_id, call.tool_id)
    /\ UNCHANGED <<remote, call, reqs, resps, lcl>>

InitItems ==
    /\ remote = Remote(<<>>, <<>>, <<>>, {1, 2}, {3, 4})
    /\ InitCall

NextItems ==
    \/ CallGetToolItems
    \/ GetToolItemsPage
    \/ GetToolItemsFails
    \/ GetToolItemsReturn

SpecItems == InitItems /\ [][NextItems]_vars

\* The loop against a remote that answers every page with the same non-empty
\* list (it ignores the page parameter), or with that list or the empty one.
\* The calls block: an iteration under way gets its answer, and the statement
\* after the loop runs once the loop is left.
InitLoop ==
    /\ \E item_info \in ItemPages \ {<<>>}, ends \in BOOLEAN :
          remote = [Remote(<<>>, <<>>, <<>>, {1, 2}, {3})
                    EXCEPT !.item_pages = IF ends THEN {item_info, <<>>}
                                          ELSE {item_info}]
    /\ InitCall

SpecLoop ==
    /\ InitLoop /\ [][NextItems]_vars
    /\ WF_vars(GetToolItemsPage \/ GetToolItemsFails)
    /\ WF_vars(GetToolItemsReturn)

----------------------------------------------------------------------------
(* Calls that create *)

CallFoldersCreate ==
    \E company_id \in CompanyIds, project_id \in ProjectIds,
       folder_name \in FolderNames, parent_id \in ParentIds :
    \E resp \in Answers([id |-> 12, name |-> folder_name]) :
        /\ Idle
        /\ call' = [op |-> "Folders.create", company_id |-> company_id,
                    project_id |-> project_id, folder_name |-> folder_name,
                    parent_id |-> parent_id]
        /\ reqs' = <<Folders_create_request(company_id, project_id, folder_name,
                                            parent_id)>>
        /\ resps' = <<resp>>
        /\ outcome' = Folders_create(company_id, project_id, folder_name,
                                     parent_id, resp)
        /\ UNCHANGED <<remote, lcl>>

CallFilesCreate ==
    \E company_id \in CompanyIds, project_id \in ProjectIds, filepath \in FilePaths,
       parent_id \in ParentIds, description \in Descriptions :
    \E resp \in Answers([id |-> 13, name |-> Basename(filepath)]) :
        /\ Idle
        /\ call' = [op |-> "Files.create", company_id |-> company_id,
                    project_id |-> project_id, filepath |-> filepath,
                    parent_id |-> parent_id, description |-> description]
        /\ reqs' = <<Files_create_request(company_id, project_id, filepath,
                                          parent_id, description)>>
        /\ resps' = <<resp>>
        /\ outcome' = Files_create(company_id, project_id, filepath, parent_id,
                                   description, resp)
        /\ UNCHANGED <<remote, lcl>>

\* Files.create on a path that cannot be opened: no request is issued.
CallFilesCreateNoFile ==
    \E company_id \in CompanyIds, project_id \in ProjectIds, filepath \in FilePaths,
       parent_id \in ParentIds, description \in Descriptions :
        /\ Idle
        /\ call' = [op |-> "Files.create", company_id |-> company_id,
                    project_id |-> project_id, filepath |-> filepath,
                    parent_id |-> parent_id, description |-> description]
        /\ reqs' = <<>>
        /\ resps' = <<>>
        /\ outcome' = open_fails(filepath)
        /\ UNCHANGED <<remote, lcl>>

CallCreateToolItem ==
    \E company_id \in CompanyIds, project_id \in ProjectIds, tool_id \in ToolIds,
       data \in ItemData, resp \in Answers([id |-> 14]) :
        /\ Idle
        /\ call' = [op |-> "GenericTool.create_tool_item", company_id |-> company_id,
                    project_id |-> project_id, tool_id |-> tool_id, data |-> data]
        /\ reqs' = <<create_tool_item_request(company_id, project_id, tool_id, data)>>
        /\ resps' = <<resp>>
        /\ outcome' = create_tool_item(company_id, project_id, tool_id, data, resp)
        /\ UNCHANGED <<remote, lcl>>

InitCreate ==
    /\ remote = Remote(<<>>, <<>>, <<>>, {1, 2}, {3, 4})
    /\ InitCall

NextCreate ==
    \/ CallFoldersCreate
    \/ CallFilesCreate
    \/ CallFilesCreateNoFile
    \/ CallCreateToolItem

SpecCreate == InitCreate /\ [][NextCreate]_vars

----------------------------------------------------------------------------
(* Calls that update *)

CallFoldersUpdate ==
    \E company_id \in CompanyIds, project_id \in ProjectIds, doc_id \in DocIds,
       parent_id \in OptParentIds, folder_name \in OptNames, private \in OptPrivate :
    \E resp \in ReadAnswers([id |-> doc_id]) :
        /\ Idle
        /\ call' = [op |-> "Folders.update", company_id |-> company_id,
                    project_id |-> project_id, doc_id |-> doc_id,
                    parent_id |-> parent_id, folder_name |-> folder_name,
                    private |-> private]
        /\ reqs' = <<Folders_update_request(company_id, project_id, doc_id,
                                            parent_id, folder_name, private)>>
        /\ resps' = <<resp>>
        /\ outcome' = request(resp)
        /\ UNCHANGED <<remote, lcl>>

CallFilesUpdate ==
    \E company_id \in CompanyIds, project_id \in ProjectIds, doc_id \in DocIds,
       filepath \in OptFilePaths, parent_id \in OptParentIds, filename \in OptNames,
       description \in OptDescriptions, private \in OptPrivate :
    \E resp \in ReadAnswers([id |-> doc_id]) :
        /\ Idle
        /\ call' = [op |-> "Files.update", company_id |-> company_id,
                    project_id |-> project_id, doc_id |-> doc_id,
                    filepath |-> filepath, parent_id |-> parent_id,
                    filename |-> filename, description |-> description,
                    private |-> private]
        /\ reqs' = <<Files_update_request(company_id, project_id, doc_id, filepath,
                                          parent_id, filename, description, private)>>
        /\ resps' = <<resp>>
        /\ outcome' = request(resp)
        /\ UNCHANGED <<remote, lcl>>

\* Files.update with a replacement file that cannot be opened: no request.
CallFilesUpdateNoFile ==
    \E company_id \in CompanyIds, project_id \in ProjectIds, doc_id \in DocIds,
       filepath \in OptFilePaths \ {PyNone}, parent_id \in OptParentIds,
       filename \in OptNames, description \in OptDescriptions, private \in OptPrivate :
        /\ Idle
        /\ call' = [op |-> "Files.update", company_id |-> company_id,
                    project_id |-> project_id, doc_id |-> doc_id,
                    filepath |-> filepath, parent_id |-> parent_id,
                    filename |-> filename, description |-> description,
                    private |-> private]
        /\ reqs' = <<>>
        /\ resps' = <<>>
        /\ outcome' = open_fails(<<filepath.v>>)
        /\ UNCHANGED <<remote, lcl>>

InitUpdate ==
    /\ remote = Remote(<<>>, <<>>, <<>>, {1, 2}, {3})
    /\ InitCall

NextUpdate ==
    \/ CallFoldersUpdate
    \/ CallFilesUpdate
    \/ CallFilesUpdateNoFile

SpecUpdate == InitUpdate /\ [][NextUpdate]_vars

----------------------------------------------------------------------------
(* The single-request reads, and a session in which every call may follow  *)
(* every other                                                             *)

CallCompaniesGet ==
    \E page \in {1, 2}, per_page \in {Companies_get_per_page} :
    \E resp \in ReadAnswers(Page(remote.companies, page, per_page)) :
        /\ Idle
        /\ call' = [op |-> "Companies.get", page |-> page, per_page |-> per_page]
        /\ reqs' = <<Companies_get_request(page, per_page)>>
        /\ resps' = <<resp>>
        /\ outcome' = request(resp)
        /\ UNCHANGED <<remote, lcl>>

CallGetProjects ==
    \E company_id \in CompanyIds :
    \E resp \in ReadAnswers(RemoteProjects) :
        /\ Idle
        /\ call' = [op |-> "Companies.get_projects", company_id |-> company_id]
        /\ reqs' = <<Companies_get_projects_request(company_id)>>
        /\ resps' = <<resp>>
        /\ outcome' = request(resp)
        /\ UNCHANGED <<remote, lcl>>

CallGetRegions ==
    \E company_id \in CompanyIds, page \in {1, 2}, per_page \in {100} :
    \E resp \in ReadAnswers(Page(RemoteRegions, page, per_page)) :
        /\ Idle
        /\ call' = [op |-> "Companies.get_regions", company_id |-> company_id, page |-> page, per_page |-> per_page]
        /\ reqs' = <<Companies_get_regions_request(company_id, page, per_page)>>
        /\ resps' = <<resp>>
        /\ outcome' = request(resp)
        /\ UNCHANGED <<remote, lcl>>

CallGetProjectTypes ==
    \E company_id \in CompanyIds, page \in {1, 2}, per_page \in {100} :
    \E resp \in ReadAnswers(Page(RemoteProjectTypes, page, per_page)) :
        /\ Idle
        /\ call' = [op |-> "Companies.get_project_types", company_id |-> company_id, page |-> page, per_page |-> per_page]
        /\ reqs' = <<Companies_get_project_types_request(company_id, page, per_page)>>
        /\ resps' = <<resp>>
        /\ outcome' = request(resp)
        /\ UNCHANGED <<remote, lcl>>

CallGetTools ==
    \E company_id \in CompanyIds, per_page \in {100} :
    \E resp \in ReadAnswers(Page(remote.tools, 1, per_page)) :
        /\ Idle
        /\ call' = [op |-> "GenericTool.get_tools", company_id |-> company_id, per_page |-> per_page]
        /\ reqs' = <<get_tools_request(company_id, per_page)>>
        /\ resps' = <<resp>>
        /\ outcome' = request(resp)
        /\ UNCHANGED <<remote, lcl>>

CallGetToolStatuses ==
    \E company_id \in CompanyIds, project_id \in ProjectIds, tool_id \in ToolIds :
    \E resp \in ReadAnswers(RemoteStatuses) :
        /\ Idle
        /\ call' = [op |-> "GenericTool.get_tool_statuses", company_id |-> company_id, project_id |-> project_id, tool_id |-> tool_id]
        /\ reqs' = <<get_tool_statuses_request(company_id, project_id, tool_id)>>
        /\ resps' = <<resp>>
        /\ outcome' = request(resp)
        /\ UNCHANGED <<remote, lcl>>

CallFoldersShow ==
    \E company_id \in CompanyIds, project_id \in ProjectIds, doc_id \in RemoteDocIds :
    \E resp \in ReadAnswers(Detail(doc_id)) :
        /\ Idle
        /\ call' = [op |-> "Folders.show", company_id |-> company_id, project_id |-> project_id, doc_id |-> doc_id]
        /\ reqs' = <<Documents_show_request(Folders_endpoint, company_id, project_id, doc_id)>>
        /\ resps' = <<resp>>
        /\ outcome' = request(resp)
        /\ UNCHANGED <<remote, lcl>>

CallFoldersRemove ==
    \E company_id \in CompanyIds, project_id \in ProjectIds, doc_id \in RemoteDocIds :
    \E resp \in ReadAnswers(Detail(doc_id)) :
        /\ Idle
        /\ call' = [op |-> "Folders.remove", company_id |-> company_id, project_id |-> project_id, doc_id |-> doc_id]
        /\ reqs' = <<Documents_remove_request(Folders_endpoint, company_id, project_id, doc_id)>>
        /\ resps' = <<resp>>
        /\ outcome' = request(resp)
        /\ UNCHANGED <<remote, lcl>>

CallFilesShow ==
    \E company_id \in CompanyIds, project_id \in ProjectIds, doc_id \in RemoteDocIds :
    \E resp \in ReadAnswers(Detail(doc_id)) :
        /\ Idle
        /\ call' = [op |-> "Files.show", company_id |-> company_id, project_id |-> project_id, doc_id |-> doc_id]
        /\ reqs' = <<Documents_show_request(Files_endpoint, company_id, project_id, doc_id)>>
        /\ resps' = <<resp>>
        /\ outcome' = request(resp)
        /\ UNCHANGED <<remote, lcl>>

CallFilesRemove ==
    \E company_id \in CompanyIds, project_id \in ProjectIds, doc_id \in RemoteDocIds :
    \E resp \in ReadAnswers(Detail(doc_id)) :
        /\ Idle
        /\ call' = [op |-> "Files.remove", company_id |-> company_id, project_id |-> project_id, doc_id |-> doc_id]
        /\ reqs' = <<Documents_remove_request(Files_endpoint, company_id, project_id, doc_id)>>
        /\ resps' = <<resp>>
        /\ outcome' = request(resp)
        /\ UNCHANGED <<remote, lcl>>

CallFoldersRoot ==
    \E company_id \in CompanyIds, project_id \in ProjectIds :
    \E resp \in ReadAnswers(remote.documents) :
        /\ Idle
        /\ call' = [op |-> "Folders.root", company_id |-> company_id, project_id |-> project_id]
        /\ reqs' = <<Folders_root_request(company_id, project_id)>>
        /\ resps' = <<resp>>
        /\ outcome' = request(resp)
        /\ UNCHANGED <<remote, lcl>>

\* One remote, two companies with two projects each, and every accessor.
InitSession ==
    /\ remote =
          [Remote(<<[id |-> PyInt(7), name |-> PyStr("Acme")]>>,
                  <<[id |-> PyInt(1), title |-> PyStr("Acme")]>>,
                  <<[id |-> DocId(1), name |-> "plans", document_type |-> "folder",
                     is_deleted |-> FALSE, is_recycle_bin |-> FALSE],
                    [id |-> DocId(2), name |-> "specs", document_type |-> "file",
                     is_deleted |-> FALSE, is_recycle_bin |-> FALSE]>>,
                  {1, 2}, {3, 4})
           EXCEPT !.item_pages = {<<>>, <<"item a">>}, !.arguments = "one"]
    /\ InitCall

NextSession ==
    \/ CallCompaniesGet
    \/ CallCompaniesFind
    \/ CallGetProjects
    \/ CallGetRegions
    \/ CallGetProjectTypes
    \/ CallGetTools
    \/ CallFindTool
    \/ CallGetToolItems
    \/ GetToolItemsPage
    \/ GetToolItemsFails
    \/ GetToolItemsReturn
    \/ CallCreateToolItem
    \/ CallGetToolStatuses
    \/ CallFoldersShow
    \/ CallFilesShow
    \/ CallFoldersRemove
    \/ CallFilesRemove
    \/ CallDocumentsGet
    \/ CallFoldersRoot
    \/ CallFoldersCreate
    \/ CallFoldersUpdate
    \/ CallFoldersGet
    \/ CallFoldersFind
    \/ CallFilesCreate
    \/ CallFilesCreateNoFile
    \/ CallFilesUpdate
    \/ CallFilesUpdateNoFile
    \/ CallFilesGet
    \/ CallFilesFind

SpecSession == InitSession /\ [][NextSession]_vars

----------------------------------------------------------------------------
(* Properties of find and find_tool *)

IsFindCall == call.op \in {"Companies.find", "GenericTool.find_tool"}
GotList == Len(resps) >= 1 /\ resps[1].status = 200

\* The field the documentation selects: id for an integer identifier (a bool
\* is an int in Python), otherwise the name of a company, the title of a tool.
IsInteger(x) == x.t \in {"int", "bool"}
LabelField == IF call.op = "Companies.find" THEN "name" ELSE "title"
SelectedField == IF IsInteger(call.identifier) THEN "id" ELSE LabelField
OtherField == IF SelectedField = "id" THEN LabelField ELSE "id"

MatchesOn(field, identifier) ==
    {i \in 1..Len(resps[1].body) : PyEq(resps[1].body[i][field], identifier)}
Least(S) == CHOOSE i \in S : \A j \in S : i <= j

\* C1: find and find_tool compare the identifier with exactly one field of
\* each record, id for an integer identifier and name / title otherwise: a
\* returned record matches on that field, and when no record matches on it
\* nothing is returned, whatever the other field of the records holds.
C1_OneFieldCompared ==
    (IsFindCall /\ GotList) =>
        /\ outcome.kind = "return" =>
              \E i \in MatchesOn(SelectedField, call.identifier) :
                  resps[1].body[i] = outcome.value
        /\ MatchesOn(SelectedField, call.identifier) = {} =>
              outcome.kind = "NotFoundItemError"

\* A record equals the identifier on the field that is not selected only, and
\* the lookup does not return it.
C1_Witness ==
    /\ IsFindCall /\ GotList
    /\ \E i \in MatchesOn(OtherField, call.identifier) :
          /\ i \notin MatchesOn(SelectedField, call.identifier)
          /\ outcome.kind = "return" => outcome.value # resps[1].body[i]
    /\ \E f \in {"id", LabelField} : MatchesOn(f, call.identifier) # {}
    /\ outcome.kind \in {"return", "NotFoundItemError"}

C2_State ==
    (call.op = "Companies.find") =>
        /\ GotList =>
              LET hits == MatchesOn(SelectedField, call.identifier)
              IN  IF hits = {}
                  THEN outcome.kind = "NotFoundItemError"
                  ELSE outcome = Returned(resps[1].body[Least(hits)])
        /\ outcome.kind = "NotFoundItemError" => GotList

\* Two lookups in a row against the same list, one by name and one by id,
\* both identifying the same record first.
C2_Pair ==
    (/\ call.op = "Companies.find" /\ GotList
     /\ call'.op = "Companies.find" /\ resps'[1].status = 200
     /\ IsInteger(call.identifier) # IsInteger(call'.identifier)
     /\ \E k \in 1..Len(remote.companies) :
           LET byId == IF IsInteger(call.identifier)
                       THEN call.identifier ELSE call'.identifier
               byName == IF IsInteger(call.identifier)
                         THEN call'.identifier ELSE call.identifier
           IN  /\ MatchesOn("id", byId) # {} /\ Least(MatchesOn("id", byId)) = k
               /\ MatchesOn("name", byName) # {}
               /\ Least(MatchesOn("name", byName)) = k)
    => (outcome.kind = "return" /\ outcome' = outcome)

\* C2: Companies.find returns the first record of the page-1 response whose
\* selected field equals the identifier, raises NotFound if and only if no
\* record of the response matches, and a lookup by name and a lookup by id
\* return the same record when both identify it first.
C2_FirstMatchWins == []C2_State /\ [][C2_Pair]_vars

\* Two different records match and the first of them is returned.
C2_Witness ==
    /\ call.op = "Companies.find" /\ GotList
    /\ \E i, j \in MatchesOn(SelectedField, call.identifier) :
          /\ i < j
          /\ resps[1].body[i] # resps[1].body[j]
          /\ outcome = Returned(resps[1].body[i])

\* The positions of the remote's companies that equal the identifier on the
\* field the lookup selects.
RemoteHits ==
    {i \in 1..Len(remote.companies) :
        PyEq(remote.companies[i][SelectedField], call.identifier)}

\* C13: Companies.find issues exactly one list request, for page 1 with
\* per_page 100, and never asks for a further page: a company the remote
\* holds outside the page-1 response is reported as NotFound.
C13_OnlyFirstPage ==
    (call.op = "Companies.find") =>
        /\ Len(reqs) = 1
        /\ reqs[1].method = "GET"
        /\ reqs[1].api_url = "/rest/v1.0/companies"
        /\ reqs[1].params.page = 1
        /\ reqs[1].params.per_page = 100
        /\ (GotList /\ RemoteHits # {} /\ \A i \in RemoteHits : i > 100)
              => outcome.kind = "NotFoundItemError"

\* The remote holds the company looked for as its 101st and nowhere before:
\* the lookup read page 1 and reported NotFound.
C13_Witness ==
    /\ call.op = "Companies.find" /\ GotList
    /\ RemoteHits = {101}
    /\ Len(resps[1].body) = 100
    /\ outcome.kind = "NotFoundItemError"

----------------------------------------------------------------------------
(* Properties of the document filters *)

IsLive(doc) == ~doc.is_deleted /\ ~doc.is_recycle_bin

\* The records a get handed back; a get that raised handed back none.
Got(o) == IF o.kind = "return" THEN Range(o.value) ELSE {}

C3_State ==
    GotList =>
        /\ call.op = "Documents.get" => outcome = Returned(remote.documents)
        /\ call.op = "Folders.get" =>
              /\ outcome.kind \in {"return", "NotFoundItemError"}
              /\ \A doc \in Got(outcome) : doc.document_type = "folder"
        /\ call.op = "Files.get" =>
              /\ outcome.kind \in {"return", "NotFoundItemError"}
              /\ \A doc \in Got(outcome) : doc.document_type = "file"

\* Folders.get and Files.get, one after the other, answered with the same list.
C3_Pair ==
    (/\ {call.op, call'.op} = {"Folders.get", "Files.get"}
     /\ GotList /\ resps'[1].status = 200
     /\ resps'[1].body = resps[1].body)
    => /\ Got(outcome) \cap Got(outcome') = {}
       /\ Got(outcome) \cup Got(outcome') =
              {doc \in Range(resps[1].body) : IsLive(doc)}

\* C3: Folders.get and Files.get partition a project's document list by
\* document_type: no record is in both results, and together the results are
\* the live records of the raw list that Documents.get returns.
C3_Partition == []C3_State /\ [][C3_Pair]_vars

\* Files.get returned the live files of a list that also holds a live folder.
C3_Witness ==
    /\ call.op = "Files.get" /\ GotList /\ outcome.kind = "return"
    /\ \E doc \in Range(resps[1].body) : IsLive(doc) /\ doc.document_type = "folder"
    /\ Len(resps[1].body) > Len(outcome.value)

ShowUrl(doc_id) ==
    (IF call.op = "Folders.find" THEN "/rest/v1.0/folders/" ELSE "/rest/v1.0/files/")
        \o Format(doc_id)

\* C4: a record with is_deleted or is_recycle_bin set is in no result of
\* Folders.get or Files.get, and Folders.find / Files.find never ask for the
\* detail of such a record.
C4_NoDeletedRecord ==
    /\ call.op \in {"Folders.get", "Files.get"} =>
          \A doc \in Got(outcome) : doc.is_deleted = FALSE /\ doc.is_recycle_bin = FALSE
    /\ (call.op \in {"Folders.find", "Files.find"} /\ Len(reqs) > 1) =>
          /\ \E doc \in Range(resps[1].body) :
                IsLive(doc) /\ reqs[2].api_url = ShowUrl(doc.id)
          /\ \A doc \in Range(resps[1].body) :
                ~IsLive(doc) => reqs[2].api_url # ShowUrl(doc.id)

\* A find passed over a record in the recycle bin that carries the name
\* looked for and showed the live record behind it.
C4_Witness ==
    /\ call.op \in {"Folders.find", "Files.find"} /\ Len(reqs) > 1
    /\ \E i, j \in 1..Len(resps[1].body) :
          /\ i < j
          /\ resps[1].body[i].name = call.identifier
          /\ resps[1].body[i].is_recycle_bin /\ ~resps[1].body[i].is_deleted
          /\ resps[1].body[i].document_type = resps[1].body[j].document_type
          /\ reqs[2].api_url = ShowUrl(resps[1].body[j].id)

\* The positions of the live records of one document type in a raw list, and
\* the k-th of them in list order.
LivePositions(raw, document_type) ==
    {i \in 1..Len(raw) : IsLive(raw[i]) /\ raw[i].document_type = document_type}
Nth(S, k) == CHOOSE i \in S : Cardinality({j \in S : j <= i}) = k
TypeOfGet == IF call.op \in {"Folders.get", "Folders.find"} THEN "folder" ELSE "file"

\* C11: Folders.get (Files.get) raises NotFound exactly when the document
\* list holds no live record of type folder (file); otherwise it returns
\* exactly the live records of that type, in the order of the list, and it
\* never returns an empty list.
C11_LiveRecordsOrNotFound ==
    (call.op \in {"Folders.get", "Files.get"} /\ GotList) =>
        LET raw == resps[1].body
            at == LivePositions(raw, TypeOfGet)
        IN  /\ outcome.kind = "NotFoundItemError" <=> at = {}
            /\ at # {} =>
                  /\ outcome.kind = "return"
                  /\ Len(outcome.value) = Cardinality(at)
                  /\ \A k \in 1..Len(outcome.value) :
                        outcome.value[k] = raw[Nth(at, k)]
            /\ outcome # Returned(<<>>)

\* Folders.get raised NotFound on a list that is not empty: it holds a live
\* file and a folder that is deleted.
C11_Witness ==
    /\ call.op = "Folders.get" /\ GotList
    /\ outcome.kind = "NotFoundItemError"
    /\ \E doc \in Range(resps[1].body) : IsLive(doc) /\ doc.document_type = "file"
    /\ \E doc \in Range(resps[1].body) : ~IsLive(doc) /\ doc.document_type = "folder"

\* The positions of the live records of the wanted type that carry the name.
NameHits(raw) ==
    {i \in LivePositions(raw, TypeOfGet) : raw[i].name = call.identifier}

\* C12: Folders.find and Files.find first issue the document-list request;
\* only if some live record of the right type has a name equal to the
\* identifier do they issue one show request, for the id of the first such
\* record, and return its result; when no name matches they issue no show
\* request and fail with NotFound.
C12_ListThenOneShow ==
    (call.op \in {"Folders.find", "Files.find"}) =>
        /\ Len(reqs) >= 1
        /\ reqs[1].method = "GET"
        /\ reqs[1].api_url =
              "/rest/v1.0/projects/" \o Format(call.project_id) \o "/documents"
        /\ ~GotList => Len(reqs) = 1
        /\ GotList =>
              LET raw == resps[1].body
              IN  IF NameHits(raw) # {}
                  THEN /\ Len(reqs) = 2
                       /\ reqs[2].method = "GET"
                       /\ reqs[2].api_url = ShowUrl(raw[Least(NameHits(raw))].id)
                       /\ resps[2].status = 200 => outcome = Returned(resps[2].body)
                  ELSE /\ Len(reqs) = 1
                       /\ outcome.kind = "NotFoundItemError"

\* Two live records of the right type carry the name; the first was shown
\* and its detail returned.
C12_Witness ==
    /\ call.op \in {"Folders.find", "Files.find"} /\ GotList
    /\ Cardinality(NameHits(resps[1].body)) = 2
    /\ Len(reqs) = 2
    /\ reqs[2].api_url = ShowUrl(resps[1].body[1].id)
    /\ outcome = Returned(resps[2].body)

----------------------------------------------------------------------------
(* Properties of get_tool_items *)

IsToolItems == call.op = "GenericTool.get_tool_items"
NonEmptyPage(resp) == resp.status = 200 /\ Len(resp.body) > 0
EmptyPage(resp) == resp.status = 200 /\ Len(resp.body) = 0

C5_State ==
    IsToolItems =>
        /\ Len(resps) = Len(reqs)
        \* pages 1, 2, 3, ... in this order, none twice
        /\ \A i \in 1..Len(reqs) : reqs[i].params.page = i
        \* a request follows non-empty pages only
        /\ \A i \in 1..Len(reqs) : i < Len(reqs) => NonEmptyPage(resps[i])
        \* after a non-empty page the call goes on to the next page
        /\ (Len(resps) > 0 /\ NonEmptyPage(resps[Len(resps)])) =>
              /\ outcome.kind = "running"
              /\ lcl.page <= MaxPages => ENABLED GetToolItemsPage
        \* it ends only on an empty page or a failure
        /\ outcome.kind # "running" =>
              Len(resps) > 0 /\ ~NonEmptyPage(resps[Len(resps)])

\* A step of a call in progress that issues a request.
C5_Step ==
    (IsToolItems /\ outcome.kind = "running" /\ reqs' # reqs) =>
        /\ Len(reqs') = Len(reqs) + 1
        /\ reqs'[Len(reqs')].params.page = Len(reqs) + 1
        /\ Len(reqs) > 0 => NonEmptyPage(resps[Len(resps)])

\* C5: one get_tool_items call requests pages 1, 2, 3, ... increasing by one,
\* never a page twice; it requests the next page after every non-empty page
\* and nothing after the first empty page.
C5_PagesInOrder == []C5_State /\ [][C5_Step]_vars

\* A call that read two non-empty pages and then the empty one.
C5_Witness ==
    /\ IsToolItems /\ Len(reqs) = 3
    /\ NonEmptyPage(resps[1]) /\ NonEmptyPage(resps[2]) /\ EmptyPage(resps[3])
    /\ outcome.kind = "return"

\* C6: get_tool_items fails with NotFound when the first page is empty.
C6_EmptyFirstPageNotFound ==
    (IsToolItems /\ outcome.kind # "running" /\ Len(resps) > 0 /\ EmptyPage(resps[1]))
        => outcome.kind = "NotFoundItemError"

\* C16: what get_tool_items returns is the list of the pages it read, not
\* their concatenation: one entry per request issued, in ascending page
\* order, each entry the response of that page unchanged; the last entry is
\* the empty page that ended the loop and every earlier entry is non-empty,
\* so the result is never the empty list.
C16_ResultIsListOfPages ==
    (IsToolItems /\ outcome.kind = "return") =>
        /\ Len(outcome.value) = Len(reqs)
        /\ \A i \in 1..Len(outcome.value) :
              /\ reqs[i].params.page = i
              /\ resps[i].status = 200
              /\ outcome.value[i] = resps[i].body
              /\ i < Len(outcome.value) => outcome.value[i] # <<>>
        /\ outcome.value # <<>>
        /\ outcome.value[Len(outcome.value)] = <<>>

\* Two pages of two items each and the empty page were read: the result has
\* three entries, not four items.
C16_Witness ==
    /\ IsToolItems /\ outcome.kind = "return"
    /\ Len(reqs) = 3
    /\ Len(resps[1].body) = 2 /\ Len(resps[2].body) = 2
    /\ outcome.value = <<resps[1].body, resps[2].body, <<>>>>

----------------------------------------------------------------------------
(* Properties of update *)

Supplied(arg) == arg # PyNone

\* The key of the PATCH body each optional argument is sent under.
FolderFields ==
    {<<"parent_id", call.parent_id>>, <<"name", call.folder_name>>,
     <<"explicit_permissions", call.private>>}
FileFields ==
    {<<"file[parent_id]", call.parent_id>>, <<"file[name]", call.filename>>,
     <<"file[description]", call.description>>, <<"file[private]", call.private>>}

ExactlySupplied(body, fields) ==
    /\ DOMAIN body = {f[1] : f \in {g \in fields : Supplied(g[2])}}
    /\ \A f \in fields : Supplied(f[2]) => body[f[1]] = f[2]

\* C7: the PATCH body of Folders.update and Files.update holds exactly the
\* keys of the optional fields the caller supplied, with the values supplied,
\* and is empty when none was supplied.
C7_SparsePatch ==
    /\ (call.op = "Folders.update" /\ Len(reqs) = 1) =>
          ExactlySupplied(reqs[1].data.folder, FolderFields)
    /\ (call.op = "Files.update" /\ Len(reqs) = 1) =>
          ExactlySupplied(reqs[1].data, FileFields)

\* A folder is made public and renamed to the empty string, its parent left
\* alone: two keys are sent, both with falsy values.
C7_Witness ==
    /\ call.op = "Folders.update" /\ Len(reqs) = 1
    /\ call.private = PyBool(FALSE) /\ call.folder_name = PyStr("")
    /\ call.parent_id = PyNone
    /\ DOMAIN reqs[1].data.folder = {"name", "explicit_permissions"}

----------------------------------------------------------------------------
(* Properties of the error translation of create *)

IsCreate == call.op \in {"Folders.create", "Files.create", "GenericTool.create_tool_item"}
TransportError(resp) ==
    Raised("ProcoreException", [status |-> resp.status, body |-> resp.body])

\* C8: a conflict status on the POST of Folders.create or Files.create reaches
\* the caller as WrongParamsError, never as the generic transport error.
C8_ConflictIsWrongParams ==
    (/\ call.op \in {"Folders.create", "Files.create"}
     /\ Len(resps) = 1 /\ resps[1].status = 409)
    => outcome.kind = "WrongParamsError"

C8_Witness ==
    /\ call.op = "Folders.create"
    /\ Len(resps) = 1 /\ resps[1].status = 409
    /\ outcome.kind = "WrongParamsError"

\* C9: a failure that is no conflict or validation rejection (401, 500)
\* reaches the caller of a create as the unmodified generic API error.
C9_OtherFailuresPropagate ==
    (IsCreate /\ Len(resps) = 1 /\ resps[1].status \in {401, 500})
    => outcome = TransportError(resps[1])

\* C10: a WrongParamsError raised by a create carries the message of the
\* transport error it translates.
C10_CarriesOriginalMessage ==
    (IsCreate /\ outcome.kind = "WrongParamsError")
    => outcome.value.text = Message(TransportError(resps[1]).value)

----------------------------------------------------------------------------
(* Properties of every accessor call: failures and identifiers *)

Failed(resp) == resp.status # 200
Errors == {"ProcoreException", "WrongParamsError", "NotFoundItemError", "OSError"}

\* C14: no accessor call retries a failed request: a response that reports a
\* failure is the last of its call, no request follows it, and the call ends
\* with an error; in get_tool_items a failure on page N ends the loop with
\* N requests issued, and the pages read before it are not returned.
C14_NoRetry ==
    /\ Len(resps) <= Len(reqs)
    /\ \A i \in 1..Len(resps) :
          Failed(resps[i]) =>
              /\ i = Len(reqs)
              /\ outcome.kind \in {"ProcoreException", "WrongParamsError"}
              /\ IsToolItems =>
                    /\ reqs[i].params.page = i
                    /\ outcome = TransportError(resps[i])

\* get_tool_items read a page of items, then page 2 failed: two requests, the
\* error as the outcome, the page read left behind in the locals.
C14_Witness ==
    /\ IsToolItems /\ Len(reqs) = 2
    /\ NonEmptyPage(resps[1]) /\ Failed(resps[2])
    /\ lcl.items = <<resps[1].body>>
    /\ outcome = TransportError(resps[2])

CompanyScoped(req) == "Procore-Company-Id" \in DOMAIN req.additional_headers
Arg(c, name) == IF name \in DOMAIN c THEN {c[name]} ELSE {}

\* The document ids a call may name: its doc_id argument, and for a find the
\* ids of the records its own list request was answered with.
OwnDocIds ==
    Arg(call, "doc_id") \cup
    (IF call.op \in {"Folders.find", "Files.find"} /\ GotList
     THEN {doc.id : doc \in Range(resps[1].body)} ELSE {})

\* Every endpoint of the company-scoped calls, filled in with the ids of the
\* current call only.
OwnUrls ==
    {"/rest/v1.0/folders", "/rest/v1.0/files"}
    \cup {"/rest/v1.0/companies/" \o Format(c) \o tail :
            c \in Arg(call, "company_id"),
            tail \in {"/projects", "/project_regions", "/project_types",
                      "/generic_tools"}}
    \cup {"/rest/v1.0/projects/" \o Format(p) \o "/documents" :
            p \in Arg(call, "project_id")}
    \cup {"/rest/v1.0/projects/" \o Format(p) \o "/generic_tools/" \o Format(t)
                \o "/generic_tool_items" \o tail :
            p \in Arg(call, "project_id"), t \in Arg(call, "tool_id"),
            tail \in {"", "/available_statuses"}}
    \cup {kind \o Format(d) :
            kind \in {"/rest/v1.0/folders/", "/rest/v1.0/files/"}, d \in OwnDocIds}

C15_State ==
    \A i \in 1..Len(reqs) :
        CompanyScoped(reqs[i]) =>
            /\ "company_id" \in DOMAIN call
            /\ reqs[i].additional_headers["Procore-Company-Id"] = Format(call.company_id)
            /\ reqs[i].api_url \in OwnUrls
            /\ "project_id" \in DOMAIN reqs[i].params =>
                  /\ "project_id" \in DOMAIN call
                  /\ reqs[i].params.project_id = call.project_id

\* A call for another company than the call before it.
C15_Step ==
    (/\ "company_id" \in DOMAIN call /\ "company_id" \in DOMAIN call'
     /\ call'.company_id # call.company_id)
    => \A i \in 1..Len(reqs') :
          CompanyScoped(reqs'[i]) =>
              reqs'[i].additional_headers["Procore-Company-Id"]
                  # Format(call.company_id)

\* C15: after any sequence of accessor calls, every company-scoped request
\* carries a Procore-Company-Id header equal to the string form of the
\* company id of the call that issued it, and its endpoint and parameters
\* use the project, tool and document ids of that call only: no identifier
\* of an earlier call is used again.
C15_OwnIdentifiersOnly == []C15_State /\ [][C15_Step]_vars

\* After a get_tool_items call, a find for company 2 and project 4 issued its
\* list request and its show request, both for company 2 and project 4.
C15_Witness ==
    /\ call.op = "Folders.find" /\ lcl.page > 1
    /\ call.company_id = 2 /\ call.project_id = 4
    /\ Len(reqs) = 2
    /\ \A i \in 1..2 : reqs[i].additional_headers["Procore-Company-Id"] = "2"
    /\ reqs[1].api_url = "/rest/v1.0/projects/4/documents"
    /\ reqs[2].params.project_id = 4

----------------------------------------------------------------------------
(* Termination of get_tool_items *)

AllNonEmpty == \A i \in 1..Len(resps) : NonEmptyPage(resps[i])
LastIsEmpty == Len(resps) > 0 /\ EmptyPage(resps[Len(resps)])

C17_State ==
    IsToolItems =>
        \* it returns on the first empty page, after the request for it
        /\ outcome.kind = "return" =>
              /\ LastIsEmpty
              /\ \A i \in 1..Len(resps) : i < Len(resps) => NonEmptyPage(resps[i])
              /\ Len(reqs) = Len(resps)
        \* as long as every page had items the call is under way
        /\ AllNonEmpty => outcome.kind = "running"
        \* a remote without an empty page is never returned from
        /\ <<>> \notin remote.item_pages => outcome.kind # "return"

\* C17: get_tool_items terminates if and only if the remote at some point
\* answers a page with an empty list: when the first empty page is page k+1
\* it returns after exactly k+1 requests, and against a remote that answers
\* every page with a non-empty list it goes on requesting and never returns.
C17_ReturnsIffEmptyPage ==
    /\ []C17_State
    /\ (InToolItems /\ LastIsEmpty) ~> (IsToolItems /\ outcome.kind = "return")
    /\ \A n \in 0..(MaxPages - 1) :
          (InToolItems /\ AllNonEmpty /\ Len(reqs) = n)
              ~> (IsToolItems /\ Len(reqs) = n + 1)

\* Against a remote that answers with items or with nothing, page 1 had
\* items and page 2 was empty: the call returned after two requests.
C17_Witness ==
    /\ IsToolItems /\ outcome.kind = "return"
    /\ Cardinality(remote.item_pages) = 2
    /\ Len(reqs) = 2 /\ NonEmptyPage(resps[1]) /\ EmptyPage(resps[2])

====
